---- MODULE Spec2Model ----
(***************************************************************************)
(* Model of the server-side orchestration core of Fileresizerpro:          *)
(*   server/remove-bg.js     BackgroundRemover (provider fallback, batch)  *)
(*   server/compress-pdf.js  PDFCompressor     (compress with escalation)  *)
(*                                                                         *)
(* Money is counted in cents (0.02 -> 2).  An image buffer is the pair of  *)
(* its length and whether the image codec (sharp) can decode it.  Option   *)
(* objects are records whose fields may be missing, the defaults of the    *)
(* destructuring assignments are applied by the ...Of operators.           *)
(***************************************************************************)
EXTENDS Integers, Sequences, FiniteSets, TLC

VARIABLES
    apiKeys,      \* constructor argument: the remote services that got a key
    imageBuffer,  \* autoRemoveBackground: the caller's buffer
    options,      \* autoRemoveBackground: the caller's options object
    aPc,          \* position inside autoRemoveBackground
    aIdx,         \* position of the for-of loop in the priority list
    aVisited,     \* priority positions whose loop body has run, in order
    aLog,         \* provider invocations made so far, in order
    aOutcome,     \* what the returned promise settled with
    pdf,          \* PDFCompressor.compress: the top-level calls in progress
    tempFiles,    \* the temp directory: path -> the file stored there
    clock,        \* Date.now()
    ioFaults,     \* whether file system and tools may fail on their own
    imageBuffers, \* batchRemoveBackground: the caller's list of buffers
    bOptions,     \* batchRemoveBackground: the caller's options object
    bPc,          \* position inside batchRemoveBackground
    bI,           \* the loop variable i
    batchPromises,\* the promises of the group being awaited
    results,      \* the results array
    bEvents,      \* starts, settlements and delays so far, in order
    bOutcome,     \* what batchRemoveBackground settled with
    rImageBuffer, \* replaceBackground: the caller's image buffer
    backgroundBuffer, \* replaceBackground: the caller's background buffer
    rOptions,     \* replaceBackground: the caller's options object
    rPc,          \* position inside replaceBackground
    foreground,   \* what the embedded autoRemoveBackground returned
    rFailedAt,    \* the step of replaceBackground whose error was caught
    rOutcome,     \* what replaceBackground settled with
    currentStream,\* QRScanner: the stream the scanner holds, 0 for null
    scanInterval, \* QRScanner: the timer the scanner holds, 0 for null
    isScanning,   \* QRScanner: the scanning flag
    startCameraBtnDisabled, \* the disabled attribute of the start button
    activeTab,    \* the tab that carries the class 'active'
    pendingStarts,\* startCamera calls waiting for getUserMedia
    started,      \* startCamera calls made so far
    acquired,     \* streams getUserMedia has handed out so far
    liveStreams,  \* acquired streams whose tracks have not been stopped
    activeTimers  \* timers made by setInterval and not cleared

autoVars == <<imageBuffer, options, aPc, aIdx, aVisited, aLog, aOutcome>>

batchVars ==
    <<imageBuffers, bOptions, bPc, bI, batchPromises, results, bEvents,
      bOutcome>>

pdfVars == <<pdf, tempFiles, clock, ioFaults>>

replaceVars ==
    <<rImageBuffer, backgroundBuffer, rOptions, rPc, foreground, rFailedAt,
      rOutcome>>

qrVars ==
    <<currentStream, scanInterval, isScanning, startCameraBtnDisabled,
      activeTab, pendingStarts, started, acquired, liveStreams, activeTimers>>

vars == <<apiKeys, autoVars, batchVars, pdfVars, replaceVars, qrVars>>

otherThanAuto == <<apiKeys, batchVars, pdfVars, replaceVars, qrVars>>

otherThanBatch == <<apiKeys, autoVars, pdfVars, replaceVars, qrVars>>

otherThanPdf == <<apiKeys, autoVars, batchVars, replaceVars, qrVars>>

otherThanReplace == <<apiKeys, autoVars, batchVars, pdfVars, qrVars>>

otherThanQr == <<apiKeys, autoVars, batchVars, pdfVars, replaceVars>>

-----------------------------------------------------------------------------
(* Bounds *)

MaxPriorityLen == 3

MaxClock == 1

MaxRequests == 2

MaxBatch == 3

MaxConcurrent == 2

MaxDelays == 3

(* startCamera calls in one run of the page. *)
MaxStarts == 4

-----------------------------------------------------------------------------
(* BackgroundRemover: registry and option defaults *)

services ==
    [removebg    |-> [name |-> "Remove.bg",                costPerImage |-> 2],
     backgrounds |-> [name |-> "BackgroundRemover.ai",     costPerImage |-> 3],
     clipdrop    |-> [name |-> "Clipdrop by Stability AI", costPerImage |-> 10]]

ServiceNames == DOMAIN services

(* Names the registry object answers through its prototype: for them       *)
(* this.services[name] is a function of Object.prototype, which is truthy  *)
(* and has no apiKey.                                                      *)
InheritedNames == {"constructor"}

(* The names for which this.services[name] is truthy. *)
TruthyLookups == ServiceNames \cup InheritedNames

localModels ==
    [u2net  |-> [name |-> "U^2-Net"],
     rembg  |-> [name |-> "Rembg"],
     modnet |-> [name |-> "MODNet"]]

(* Variant: the cheapest remote provider comes before the local model. *)
DefaultPriorityRemoteFirst == <<"removebg", "local", "backgrounds", "clipdrop">>

DefaultPriority == <<"local", "removebg", "backgrounds", "clipdrop">>

DefaultMaxFileSize == 10 * 1024 * 1024

priorityOf(opts) ==
    IF "priority" \in DOMAIN opts THEN opts.priority ELSE DefaultPriority

(* Variant: the fallbackToLocal option is ignored. *)
fallbackToLocalIgnored(opts) == TRUE

fallbackToLocalOf(opts) ==
    IF "fallbackToLocal" \in DOMAIN opts THEN opts.fallbackToLocal ELSE TRUE

maxFileSizeOf(opts) ==
    IF "maxFileSize" \in DOMAIN opts THEN opts.maxFileSize
    ELSE DefaultMaxFileSize

(* Variant: the size check is missing. *)
FileTooLargeUnchecked(buf, opts) == FALSE

(* The size check of autoRemoveBackground: TRUE when the call is rejected. *)
FileTooLarge(buf, opts) == buf.length > maxFileSizeOf(opts)

(* sharp(buffer).metadata() and the pipelines built on it reject a buffer   *)
(* that is not an image the codec can decode.                               *)
SharpDecodes(buf) == buf.valid

-----------------------------------------------------------------------------
(* Results and errors *)

Pending == [kind |-> "pending", service |-> "", cost |-> 0, error |-> ""]

Result(service, cost) ==
    [kind |-> "result", service |-> service, cost |-> cost, error |-> ""]

Failure(error) ==
    [kind |-> "error", service |-> "", cost |-> 0, error |-> error]

LocalResult == Result("Local: U^2-Net", 0)

(* Variant: every remote result carries the price of remove.bg. *)
ServiceResultFlatCost(serviceName) ==
    Result(services[serviceName].name, services.removebg.costPerImage)

ServiceResult(serviceName) ==
    Result(services[serviceName].name, services[serviceName].costPerImage)

BasicTransparencyResult == Result("Basic Transparency", 0)

(* createBasicTransparency: the first sharp call throws on an undecodable   *)
(* buffer and nothing in the method or in its caller catches it.            *)
createBasicTransparency(buf) ==
    IF SharpDecodes(buf) THEN BasicTransparencyResult
    ELSE Failure("Input buffer contains unsupported image format")

(* removeWithLocalModel('u2net', ...): the model is registered, the sharp   *)
(* pipeline succeeds exactly on a decodable buffer.                         *)
removeWithLocalModel(modelName, buf) ==
    IF modelName \notin DOMAIN localModels
    THEN Failure("Local model not available")
    ELSE IF SharpDecodes(buf) THEN LocalResult
    ELSE Failure("Input buffer contains unsupported image format")

(* Variant: the API key guard is missing. *)
ServiceGuardErrorKeyUnchecked(serviceName, keys) ==
    IF serviceName \notin ServiceNames THEN "Service not configured" ELSE ""

(* The two guards at the head of removeWithService. *)
ServiceGuardError(serviceName, keys) ==
    IF serviceName \notin TruthyLookups THEN "Service not configured"
    ELSE IF serviceName \notin keys THEN "API key is required"
    ELSE ""

(* HTTP outcomes of axios.post: a status, or no response at all. *)
HttpOutcomes == {"200", "402", "429", "500", "network"}

(* error.message of the error axios rejects with. *)
AxiosMessage(http) ==
    IF http = "network" THEN "Network Error"
    ELSE "Request failed with status code " \o http

(* Variant: every rejection of axios.post gives the generic error. *)
ServiceResponseUnclassified(serviceName, http) ==
    IF http = "200" THEN ServiceResult(serviceName)
    ELSE Failure(services[serviceName].name \o " failed: " \o AxiosMessage(http))

(* The try/catch around axios.post in removeWithService. *)
ServiceResponse(serviceName, http) ==
    IF http = "200" THEN ServiceResult(serviceName)
    ELSE IF http = "402"
    THEN Failure(services[serviceName].name
                    \o ": Payment required or insufficient credits")
    ELSE IF http = "429"
    THEN Failure(services[serviceName].name \o ": Rate limit exceeded")
    ELSE Failure(services[serviceName].name \o " failed: " \o AxiosMessage(http))

(* One attempt of the loop; error is the message the catch of the loop     *)
(* warns about.                                                            *)
Event(op, name, pos, status) ==
    [op |-> op, name |-> name, pos |-> pos, status |-> status, error |-> ""]

-----------------------------------------------------------------------------
(* Inputs *)

(* clipdrop is reached through the default priority. *)
PriorityNames ==
    {"removebg", "backgrounds"} \cup InheritedNames \cup {"local", "other"}

PriorityLists == UNION {[1..n -> PriorityNames] : n \in 0..MaxPriorityLen}

BufferLengths == {0, DefaultMaxFileSize, DefaultMaxFileSize + 1}

ImageBuffers == [length : BufferLengths, valid : BOOLEAN]

OptionsSet ==
    {p @@ f @@ m :
        p \in {<<>>} \cup {[priority |-> l] : l \in PriorityLists},
        f \in {<<>>} \cup {[fallbackToLocal |-> b] : b \in BOOLEAN},
        m \in {<<>>, [maxFileSize |-> 0]}}

-----------------------------------------------------------------------------
(* autoRemoveBackground, one action per step between two awaits *)

AutoInit ==
    /\ imageBuffer \in ImageBuffers
    /\ options \in OptionsSet
    /\ aPc = "start"
    /\ aIdx = 0
    /\ aVisited = <<>>
    /\ aLog = <<>>
    /\ aOutcome = Pending

aPriority == priorityOf(options)

InLoopBody == aPc = "loop" /\ aIdx \in 1..Len(aPriority)

LoopExhausted == aPc = "loop" /\ aIdx > Len(aPriority)

(* Variant: a fulfilled provider call does not leave the loop. *)
LoopContinuesAlways(r) == TRUE

(* try { return await ... } catch { continue }: a rejected provider call    *)
(* moves the loop on, a fulfilled one is returned.                          *)
LoopContinues(r) == r.kind = "error"

AutoAfterEntry(r) ==
    IF LoopContinues(r)
    THEN /\ aPc' = "loop"
         /\ aIdx' = aIdx + 1
         /\ UNCHANGED aOutcome
    ELSE /\ aPc' = "done"
         /\ aOutcome' = r
         /\ UNCHANGED aIdx

AutoCheckSize ==
    /\ aPc = "start"
    /\ IF FileTooLarge(imageBuffer, options)
       THEN /\ aPc' = "done"
            /\ aOutcome' = Failure("File too large")
            /\ UNCHANGED aIdx
       ELSE /\ aPc' = "loop"
            /\ aIdx' = 1
            /\ UNCHANGED aOutcome
    /\ UNCHANGED <<imageBuffer, options, aVisited, aLog>>
    /\ UNCHANGED otherThanAuto

AutoTryLocal ==
    /\ InLoopBody
    /\ aPriority[aIdx] = "local"
    /\ LET r == removeWithLocalModel("u2net", imageBuffer) IN
         /\ aLog' = Append(aLog, [Event("local", "u2net", aIdx,
                              IF r.kind = "result" THEN "ok" ELSE "throw")
                                    EXCEPT !.error = r.error])
         /\ AutoAfterEntry(r)
    /\ aVisited' = Append(aVisited, aIdx)
    /\ UNCHANGED <<imageBuffer, options>>
    /\ UNCHANGED otherThanAuto

AutoTryService ==
    /\ InLoopBody
    /\ aPriority[aIdx] \in TruthyLookups
    /\ LET name == aPriority[aIdx]
           guard == ServiceGuardError(name, apiKeys) IN
         IF guard # ""
         THEN /\ aLog' = Append(aLog,
                     [Event("service", name, aIdx, "unconfigured")
                         EXCEPT !.error = guard])
              /\ AutoAfterEntry(Failure(guard))
         ELSE /\ aLog' = Append(aLog, Event("post", name, aIdx, "sent"))
              /\ aPc' = "http"
              /\ UNCHANGED <<aIdx, aOutcome>>
    /\ aVisited' = Append(aVisited, aIdx)
    /\ UNCHANGED <<imageBuffer, options>>
    /\ UNCHANGED otherThanAuto

AutoHttpResponse ==
    /\ aPc = "http"
    /\ \E http \in HttpOutcomes :
         /\ aLog' = [aLog EXCEPT
                ![Len(aLog)].status = http,
                ![Len(aLog)].error = ServiceResponse(aPriority[aIdx], http).error]
         /\ AutoAfterEntry(ServiceResponse(aPriority[aIdx], http))
    /\ UNCHANGED <<imageBuffer, options, aVisited>>
    /\ UNCHANGED otherThanAuto

AutoSkipUnknown ==
    /\ InLoopBody
    /\ aPriority[aIdx] \notin TruthyLookups \cup {"local"}
    /\ aIdx' = aIdx + 1
    /\ aVisited' = Append(aVisited, aIdx)
    /\ UNCHANGED <<imageBuffer, options, aPc, aLog, aOutcome>>
    /\ UNCHANGED otherThanAuto

AutoFallback ==
    /\ LoopExhausted
    /\ fallbackToLocalOf(options)
    /\ LET r == createBasicTransparency(imageBuffer) IN
         /\ aLog' = Append(aLog, Event("basic", "Basic Transparency", aIdx,
                              IF r.kind = "result" THEN "ok" ELSE "throw"))
         /\ aOutcome' = r
    /\ aPc' = "done"
    /\ UNCHANGED <<imageBuffer, options, aIdx, aVisited>>
    /\ UNCHANGED otherThanAuto

AutoFailAll ==
    /\ LoopExhausted
    /\ ~fallbackToLocalOf(options)
    /\ aOutcome' = Failure("All background removal services failed")
    /\ aPc' = "done"
    /\ UNCHANGED <<imageBuffer, options, aIdx, aVisited, aLog>>
    /\ UNCHANGED otherThanAuto

AutoNext ==
    \/ AutoCheckSize
    \/ AutoTryLocal
    \/ AutoTryService
    \/ AutoHttpResponse
    \/ AutoSkipUnknown
    \/ AutoFallback
    \/ AutoFailAll

-----------------------------------------------------------------------------
(* PDFCompressor: option defaults and pure helpers *)

MB == 1024 * 1024

DefaultMaxSizeMB == 5

methodOf(opts) ==
    IF "method" \in DOMAIN opts THEN opts.method ELSE "ghostscript"

qualityOf(opts) ==
    IF "quality" \in DOMAIN opts THEN opts.quality ELSE "ebook"

maxSizeMBOf(opts) ==
    IF "maxSizeMB" \in DOMAIN opts THEN opts.maxSizeMB ELSE DefaultMaxSizeMB

(* compressWithGhostscript: qualityMap[quality] || '/ebook' and the dpi. *)
qualityMap ==
    [screen |-> "/screen", ebook |-> "/ebook", printer |-> "/printer",
     prepress |-> "/prepress", default |-> "/default"]

GhostscriptSetting(quality) ==
    IF quality \in DOMAIN qualityMap THEN qualityMap[quality] ELSE "/ebook"

GhostscriptDpi(quality) == IF quality = "screen" THEN 72 ELSE 150

(* The command line a tool invocation runs: qpdf never looks at quality. *)
ToolCommand(opts) ==
    IF methodOf(opts) = "ghostscript"
    THEN [tool |-> "gs", setting |-> GhostscriptSetting(qualityOf(opts)),
          dpi |-> GhostscriptDpi(qualityOf(opts))]
    ELSE [tool |-> "qpdf", setting |-> "--object-streams=generate", dpi |-> 0]

SupportedInSwitch(opts) == methodOf(opts) \in {"ghostscript", "qpdf"}

ToolError(opts) ==
    IF methodOf(opts) = "ghostscript" THEN "Ghostscript compression failed"
    ELSE "qPDF compression failed"

(* Variant: the size test alone decides, whatever the quality. *)
ShouldEscalateAnyQuality(compressedSize, opts) ==
    compressedSize > maxSizeMBOf(opts) * MB

(* compressedSize > maxSizeMB * 1024 * 1024 && quality !== 'screen' *)
ShouldEscalate(compressedSize, opts) ==
    /\ compressedSize > maxSizeMBOf(opts) * MB
    /\ qualityOf(opts) # "screen"

(* Variant: escalation moves one step down the quality ladder. *)
EscalatedOptionsOneStep(opts) ==
    LET q == qualityOf(opts)
        next == IF q = "prepress" THEN "printer"
                ELSE IF q = "printer" THEN "default"
                ELSE IF q = "default" THEN "ebook"
                ELSE "screen"
    IN  [quality |-> next] @@ opts

(* { ...options, quality: 'screen' } *)
EscalatedOptions(opts) == [quality |-> "screen"] @@ opts

inputPathOf(ts) == <<"input", ts>>

outputPathOf(ts) == <<"compressed", ts>>

PdfPending ==
    [kind |-> "pending", originalSize |-> 0, compressedSize |-> 0,
     methodUsed |-> "", error |-> ""]

PdfResult(originalSize, compressedSize, method) ==
    [kind |-> "result", originalSize |-> originalSize,
     compressedSize |-> compressedSize, methodUsed |-> method, error |-> ""]

PdfError(error) ==
    [kind |-> "error", originalSize |-> 0, compressedSize |-> 0,
     methodUsed |-> "", error |-> error]

NewFrame(opts) ==
    [opts |-> opts, ts |-> 0, pc |-> "enter", compressedSize |-> 0,
     ret |-> PdfPending]

(* What the temp directory keeps of a file: its size and the compress call *)
(* that wrote it last.                                                     *)
FileOf(size, r) == [size |-> size, owner |-> r]

WithFile(files, path, content) ==
    [q \in DOMAIN files \cup {path} |->
        IF q = path THEN content ELSE files[q]]

WithoutFiles(files, paths) ==
    [q \in DOMAIN files \ paths |-> files[q]]

-----------------------------------------------------------------------------
(* PDF inputs *)

PdfMethods == {"ghostscript", "qpdf", "pdf-lib"}

PdfQualities == {"screen", "ebook", "printer", "prepress", "default"}

PdfOptionsSet ==
    {m @@ q @@ b :
        m \in {<<>>} \cup {[method |-> x] : x \in {"qpdf", "pdf-lib"}},
        q \in {<<>>} \cup {[quality |-> x] : x \in PdfQualities},
        b \in {<<>>, [maxSizeMB |-> 0], [maxSizeMB |-> 1]}}

PdfInputSizes == {MB, 6 * MB}

(* Sizes the external tool can leave in the output file. *)
PdfOutputSizes == {0, MB, MB + 1, 5 * MB + 1}

NewRequest(inputSize, opts) ==
    [inputSize |-> inputSize, opts |-> opts, frames |-> <<NewFrame(opts)>>,
     tools |-> <<>>, faults |-> 0, paths |-> {}, unlinkFailed |-> {},
     escalated |-> FALSE, outcome |-> PdfPending]

-----------------------------------------------------------------------------
(* compress, one action per step between two awaits.  frames is the stack  *)
(* of compress activations of one top-level call, the last one is running. *)

Top(r) == pdf[r].frames[Len(pdf[r].frames)]

Running(r, pc) ==
    /\ r \in DOMAIN pdf
    /\ pdf[r].outcome.kind = "pending"
    /\ Len(pdf[r].frames) > 0
    /\ Top(r).pc = pc

SetTop(r, frame) ==
    pdf' = [pdf EXCEPT ![r].frames[Len(pdf[r].frames)] = frame]

(* fs.mkdir and Date.now(); mkdir is outside the try block. *)
PdfEnter(r) ==
    /\ Running(r, "enter")
    /\ \/ /\ \E now \in {clock, clock + 1} :
               /\ now <= MaxClock
               /\ clock' = now
               /\ pdf' = [pdf EXCEPT
                     ![r].paths = @ \cup {inputPathOf(now), outputPathOf(now)},
                     ![r].frames[Len(pdf[r].frames)].ts = now,
                     ![r].frames[Len(pdf[r].frames)].pc = "write"]
       \/ /\ ioFaults
          /\ pdf' = [pdf EXCEPT
                ![r].faults = @ + 1,
                ![r].frames[Len(pdf[r].frames)].pc = "throw",
                ![r].frames[Len(pdf[r].frames)].ret = PdfError("mkdir failed")]
          /\ UNCHANGED clock
    /\ UNCHANGED <<tempFiles, ioFaults>>
    /\ UNCHANGED otherThanPdf

(* fs.writeFile(inputPath, inputBuffer); a failed write may leave a file. *)
PdfWrite(r) ==
    /\ Running(r, "write")
    /\ LET ip == inputPathOf(Top(r).ts) IN
         \/ /\ tempFiles' = WithFile(tempFiles, ip, FileOf(pdf[r].inputSize, r))
            /\ SetTop(r, [Top(r) EXCEPT !.pc = "tool"])
         \/ /\ ioFaults
            /\ \/ tempFiles' = WithFile(tempFiles, ip, FileOf(0, r))
               \/ UNCHANGED tempFiles
            /\ pdf' = [pdf EXCEPT
                  ![r].faults = @ + 1,
                  ![r].frames[Len(pdf[r].frames)].pc = "catch",
                  ![r].frames[Len(pdf[r].frames)].ret = PdfError("write failed")]
    /\ UNCHANGED <<clock, ioFaults>>
    /\ UNCHANGED otherThanPdf

(* default branch of the switch *)
PdfUnsupported(r) ==
    /\ Running(r, "tool")
    /\ ~SupportedInSwitch(Top(r).opts)
    /\ SetTop(r, [Top(r) EXCEPT !.pc = "catch",
                                !.ret = PdfError("Unsupported method")])
    /\ UNCHANGED <<tempFiles, clock, ioFaults>>
    /\ UNCHANGED otherThanPdf

(* Variant: a failed tool invocation is run again. *)
ToolFailurePcRetry == "tool"

(* The catch blocks of the tool wrappers rethrow into the catch of compress. *)
ToolFailurePc == "catch"

(* compressWithGhostscript / compressWithQPdf: exec and stat.  The tool     *)
(* cannot succeed without its input file.                                   *)
PdfTool(r) ==
    /\ Running(r, "tool")
    /\ SupportedInSwitch(Top(r).opts)
    /\ LET op == outputPathOf(Top(r).ts)
           ip == inputPathOf(Top(r).ts)
           call(ok, size) ==
               [command |-> ToolCommand(Top(r).opts),
                quality |-> qualityOf(Top(r).opts), ok |-> ok, size |-> size] IN
         \/ \E size \in PdfOutputSizes :
               /\ ip \in DOMAIN tempFiles
               /\ tempFiles' = WithFile(tempFiles, op, FileOf(size, r))
               /\ pdf' = [pdf EXCEPT
                     ![r].tools = Append(@, call(TRUE, size)),
                     ![r].frames[Len(pdf[r].frames)].pc = "read"]
         \/ /\ ioFaults \/ ip \notin DOMAIN tempFiles
            /\ \/ ioFaults /\ tempFiles' = WithFile(tempFiles, op, FileOf(0, r))
               \/ UNCHANGED tempFiles
            /\ pdf' = [pdf EXCEPT
                  ![r].tools = Append(@, call(FALSE, 0)),
                  ![r].faults = @ + 1,
                  ![r].frames[Len(pdf[r].frames)].pc = ToolFailurePc,
                  ![r].frames[Len(pdf[r].frames)].ret =
                        PdfError(ToolError(Top(r).opts))]
    /\ UNCHANGED <<clock, ioFaults>>
    /\ UNCHANGED otherThanPdf

(* fs.readFile(outputPath) *)
PdfRead(r) ==
    /\ Running(r, "read")
    /\ LET op == outputPathOf(Top(r).ts) IN
         \/ /\ op \in DOMAIN tempFiles
            /\ SetTop(r, [Top(r) EXCEPT !.pc = "cleanup",
                                        !.compressedSize = tempFiles[op].size])
         \/ /\ ioFaults \/ op \notin DOMAIN tempFiles
            /\ pdf' = [pdf EXCEPT
                  ![r].faults = @ + 1,
                  ![r].frames[Len(pdf[r].frames)].pc = "catch",
                  ![r].frames[Len(pdf[r].frames)].ret = PdfError("read failed")]
    /\ UNCHANGED <<tempFiles, clock, ioFaults>>
    /\ UNCHANGED otherThanPdf

(* The sets of files whose unlink can fail with something else than ENOENT. *)
UnlinkFailures(paths) ==
    IF ioFaults THEN SUBSET (paths \cap DOMAIN tempFiles) ELSE {{}}

(* Variant: only the input file is unlinked. *)
CleanupFilesInputOnly(r, paths, kept) ==
    /\ tempFiles' = WithoutFiles(tempFiles,
            {q \in paths : q[1] = "input"} \ kept)
    /\ pdf' = [pdf EXCEPT
          ![r].unlinkFailed = @ \cup kept,
          ![r].frames[Len(pdf[r].frames)].pc =
                IF Top(r).pc = "cleanup" THEN "check" ELSE "throw"]

(* Variant: a failed unlink makes cleanupFiles reject, and compress throws  *)
(* that error.                                                              *)
CleanupFilesThrowing(r, paths, kept) ==
    /\ tempFiles' = WithoutFiles(tempFiles, paths \ kept)
    /\ pdf' = [pdf EXCEPT
          ![r].unlinkFailed = @ \cup kept,
          ![r].frames[Len(pdf[r].frames)].ret =
                IF kept = {} THEN @ ELSE PdfError("unlink failed"),
          ![r].frames[Len(pdf[r].frames)].pc =
                IF Top(r).pc = "cleanup" /\ kept = {} THEN "check" ELSE "throw"]

(* cleanupFiles: every unlink either removes the file or fails, and a       *)
(* failure is swallowed whatever its code; then compress goes on.           *)
CleanupFiles(r, paths, kept) ==
    /\ tempFiles' = WithoutFiles(tempFiles, paths \ kept)
    /\ pdf' = [pdf EXCEPT
          ![r].unlinkFailed = @ \cup kept,
          ![r].frames[Len(pdf[r].frames)].pc =
                IF Top(r).pc = "cleanup" THEN "check" ELSE "throw"]

FramePaths(f) == {inputPathOf(f.ts), outputPathOf(f.ts)}

PdfCleanup(r) ==
    /\ Running(r, "cleanup")
    /\ \E kept \in UnlinkFailures(FramePaths(Top(r))) :
         CleanupFiles(r, FramePaths(Top(r)), kept)
    /\ UNCHANGED <<clock, ioFaults>>
    /\ UNCHANGED otherThanPdf

(* The size test: recurse with quality 'screen' or return the result. *)
PdfCheck(r) ==
    /\ Running(r, "check")
    /\ LET f == Top(r) IN
         IF ShouldEscalate(f.compressedSize, f.opts)
         THEN pdf' = [pdf EXCEPT
                ![r].escalated = TRUE,
                ![r].frames = Append([@ EXCEPT ![Len(@)].pc = "await"],
                                     NewFrame(EscalatedOptions(f.opts)))]
         ELSE SetTop(r, [f EXCEPT !.pc = "return",
                  !.ret = PdfResult(pdf[r].inputSize, f.compressedSize,
                                    methodOf(f.opts))])
    /\ UNCHANGED <<tempFiles, clock, ioFaults>>
    /\ UNCHANGED otherThanPdf

(* catch (error) { await cleanupFiles(...).catch(() => {}); throw error } *)
PdfCatch(r) ==
    /\ Running(r, "catch")
    /\ \E kept \in UnlinkFailures(FramePaths(Top(r))) :
         CleanupFiles(r, FramePaths(Top(r)), kept)
    /\ UNCHANGED <<clock, ioFaults>>
    /\ UNCHANGED otherThanPdf

(* Variant: when the escalated attempt fails, the awaiting activation      *)
(* returns the result of its own attempt.                                  *)
AfterAwaitKeepsFirst(r, outer, inner) ==
    IF inner.pc = "return"
    THEN [outer EXCEPT !.pc = "return", !.ret = inner.ret]
    ELSE [outer EXCEPT !.pc = "return",
            !.ret = PdfResult(pdf[r].inputSize, outer.compressedSize,
                              methodOf(outer.opts))]

(* return await this.compress(...) inside the try block: the result of the *)
(* escalated attempt is returned, its error goes to the catch.             *)
AfterAwait(r, outer, inner) ==
    [outer EXCEPT !.pc = IF inner.pc = "return" THEN "return" ELSE "catch",
                  !.ret = inner.ret]

(* The running activation settles: its caller is either the outside world  *)
(* or the activation that awaits it inside its own try block.              *)
PdfSettle(r) ==
    /\ r \in DOMAIN pdf
    /\ pdf[r].outcome.kind = "pending"
    /\ Len(pdf[r].frames) > 0
    /\ Top(r).pc \in {"return", "throw"}
    /\ LET f == Top(r)
           n == Len(pdf[r].frames) IN
         IF n = 1
         THEN pdf' = [pdf EXCEPT ![r].frames = <<>>, ![r].outcome = f.ret]
         ELSE pdf' = [pdf EXCEPT ![r].frames =
                [k \in 1..(n - 1) |->
                    IF k < n - 1 THEN pdf[r].frames[k]
                    ELSE AfterAwait(r, pdf[r].frames[k], f)]]
    /\ UNCHANGED <<tempFiles, clock, ioFaults>>
    /\ UNCHANGED otherThanPdf

PdfStep(r) ==
    \/ PdfEnter(r)
    \/ PdfWrite(r)
    \/ PdfUnsupported(r)
    \/ PdfTool(r)
    \/ PdfRead(r)
    \/ PdfCleanup(r)
    \/ PdfCheck(r)
    \/ PdfCatch(r)
    \/ PdfSettle(r)

PdfIdle ==
    /\ pdf = <<>>
    /\ tempFiles = <<>>
    /\ clock = 0
    /\ ioFaults = FALSE

AutoIdle ==
    /\ imageBuffer = [length |-> 0, valid |-> TRUE]
    /\ options = <<>>
    /\ aPc = "idle"
    /\ aIdx = 0
    /\ aVisited = <<>>
    /\ aLog = <<>>
    /\ aOutcome = Pending

PdfInit ==
    /\ pdf \in {<<NewRequest(size, opts)>> :
                    size \in PdfInputSizes, opts \in PdfOptionsSet}
    /\ tempFiles = <<>>
    /\ clock = 0
    /\ ioFaults = TRUE

(* Two compress calls made together, e.g. by two HTTP requests, on a file  *)
(* system and with tools that do not fail on their own.                    *)
ConcurrentOptionsSet == {<<>>, [method |-> "pdf-lib"]}

PdfConcurrentInit ==
    /\ pdf \in {<<NewRequest(MB, <<>>), NewRequest(MB, opts)>> :
                    opts \in ConcurrentOptionsSet}
    /\ tempFiles = <<>>
    /\ clock = 0
    /\ ioFaults = FALSE

PdfIds == 1..MaxRequests

PdfNext == \E r \in PdfIds : PdfStep(r)

-----------------------------------------------------------------------------
(* autoRemoveBackground as a whole: the values its promise can settle with, *)
(* over every answer the contacted services can give.                       *)

(* What one pass of the loop body can end in. *)
EntryResults(serviceName, buf, keys) ==
    IF serviceName = "local" THEN {removeWithLocalModel("u2net", buf)}
    ELSE IF serviceName \in TruthyLookups
    THEN IF ServiceGuardError(serviceName, keys) # ""
         THEN {Failure(ServiceGuardError(serviceName, keys))}
         ELSE {ServiceResponse(serviceName, http) : http \in HttpOutcomes}
    ELSE {}

RECURSIVE LoopOutcomes(_, _, _, _)
LoopOutcomes(buf, opts, keys, p) ==
    IF p > Len(priorityOf(opts))
    THEN IF fallbackToLocalOf(opts) THEN {createBasicTransparency(buf)}
         ELSE {Failure("All background removal services failed")}
    ELSE LET rs == EntryResults(priorityOf(opts)[p], buf, keys) IN
         {r \in rs : ~LoopContinues(r)} \cup
         (IF rs = {} \/ \E r \in rs : LoopContinues(r)
          THEN LoopOutcomes(buf, opts, keys, p + 1) ELSE {})

autoRemoveBackground(buf, opts, keys) ==
    IF FileTooLarge(buf, opts) THEN {Failure("File too large")}
    ELSE LoopOutcomes(buf, opts, keys, 1)

-----------------------------------------------------------------------------
(* batchRemoveBackground *)

DefaultConcurrent == 3

(* Variant: a group size below 1 is taken as 1. *)
concurrentOfAtLeastOne(opts) ==
    IF "concurrent" \in DOMAIN opts
    THEN (IF opts.concurrent < 1 THEN 1 ELSE opts.concurrent)
    ELSE DefaultConcurrent

(* Variant: the caller's group size is ignored. *)
concurrentOfIgnored(opts) == DefaultConcurrent

concurrentOf(opts) ==
    IF "concurrent" \in DOMAIN opts THEN opts.concurrent ELSE DefaultConcurrent

(* Variant: the per-image failure is not caught. *)
WrapUncaught(v, index) ==
    [state |-> IF v.kind = "result" THEN "fulfilled" ELSE "rejected",
     value |-> [success |-> v.kind = "result", index |-> index,
                service |-> v.service, cost |-> v.cost, error |-> v.error]]

(* .then(result => ({success: true, result, index}))                        *)
(* .catch(error => ({success: false, error: error.message, index}))         *)
Wrap(v, index) ==
    [state |-> "fulfilled",
     value |-> [success |-> v.kind = "result", index |-> index,
                service |-> v.service, cost |-> v.cost, error |-> v.error]]

PendingPromise == [state |-> "pending", value |-> <<>>]

(* Variant: the slice is one element short. *)
SliceShort(list, from, to) ==
    [k \in 1..((IF to - 1 < Len(list) THEN to - 1 ELSE Len(list)) - from) |->
        list[from + k]]

(* Variant: the slice reaches one element into the next group. *)
SliceWide(list, from, to) ==
    [k \in 1..((IF to + 1 < Len(list) THEN to + 1 ELSE Len(list)) - from) |->
        list[from + k]]

(* list.slice(from, to) for 0 <= from <= to, with 0-based bounds *)
Slice(list, from, to) ==
    [k \in 1..((IF to < Len(list) THEN to ELSE Len(list)) - from) |->
        list[from + k]]

(* Variant: list.splice(from, to - from) takes the group out of the list. *)
ListAfterSplice(list, from, to) ==
    [k \in 1..(Len(list) - Len(Slice(list, from, to))) |->
        IF k <= from THEN list[k] ELSE list[k + Len(Slice(list, from, to))]]

(* What list.slice(from, to) leaves of the list it is called on: all of it. *)
ListAfterSlice(list, from, to) == list

(* Variant: the group's values are taken in the order the promises settled. *)
PromiseAllInSettleOrder(promises, settleOrder) ==
    [k \in 1..Len(promises) |-> promises[settleOrder[k]].value]

(* Promise.all of fulfilled promises: the values in the order of the array. *)
PromiseAll(promises, settleOrder) ==
    [k \in 1..Len(promises) |-> promises[k].value]

Count(seq, Test(_)) == Cardinality({k \in 1..Len(seq) : Test(seq[k])})

IsSuccess(r) == r.success

IsFailure(r) == ~r.success

(* The object the method returns, estimatedCost in cents. *)
BatchSummary(res) ==
    [kind |-> "returned",
     total |-> Len(res),
     successful |-> Count(res, IsSuccess),
     failed |-> Count(res, IsFailure),
     results |-> res,
     estimatedCost |-> Count(res, IsSuccess) * 2]

BatchEvent(ev, index) == [ev |-> ev, index |-> index]

IsDelay(e) == e.ev = "delay"

(* The settlements of the group being awaited, as positions in the group. *)
GroupSettleOrder ==
    LET settled == SelectSeq(bEvents, LAMBDA e : e.ev = "settle" /\ e.index >= bI)
    IN  [k \in 1..Len(settled) |-> settled[k].index - bI + 1]

(* Loop test, slice and map: every call of the group is started. *)
BatchDispatch ==
    /\ bPc = "loop"
    /\ bI < Len(imageBuffers)
    /\ LET batch == Slice(imageBuffers, bI, bI + concurrentOf(bOptions)) IN
         /\ batchPromises' = [k \in 1..Len(batch) |-> PendingPromise]
         /\ bEvents' = bEvents \o
                [k \in 1..Len(batch) |-> BatchEvent("start", bI + k - 1)]
    /\ imageBuffers' =
          ListAfterSlice(imageBuffers, bI, bI + concurrentOf(bOptions))
    /\ bPc' = "await"
    /\ UNCHANGED <<bOptions, bI, results, bOutcome>>
    /\ UNCHANGED otherThanBatch

(* One autoRemoveBackground call of the group settles. *)
BatchSettle ==
    /\ bPc = "await"
    /\ \E k \in 1..Len(batchPromises) :
         /\ batchPromises[k].state = "pending"
         /\ \E v \in autoRemoveBackground(imageBuffers[bI + k], bOptions, apiKeys) :
              batchPromises' = [batchPromises EXCEPT ![k] = Wrap(v, bI + k - 1)]
         /\ bEvents' = Append(bEvents, BatchEvent("settle", bI + k - 1))
    /\ UNCHANGED <<imageBuffers, bOptions, bPc, bI, results, bOutcome>>
    /\ UNCHANGED otherThanBatch

(* Variant: the delay follows every group. *)
DelayNeededAlways(i, concurrent, length) == TRUE

(* if (i + concurrent < imageBuffers.length) *)
DelayNeeded(i, concurrent, length) == i + concurrent < length

(* await Promise.all, results.push and the test before the delay. *)
BatchCollect ==
    /\ bPc = "await"
    /\ \/ \A k \in 1..Len(batchPromises) : batchPromises[k].state = "fulfilled"
       \/ \E k \in 1..Len(batchPromises) : batchPromises[k].state = "rejected"
    /\ IF \E k \in 1..Len(batchPromises) : batchPromises[k].state = "rejected"
       THEN /\ bPc' = "threw"
            /\ bOutcome' = [kind |-> "threw"]
            /\ UNCHANGED <<bI, results>>
       ELSE /\ results' = results \o PromiseAll(batchPromises, GroupSettleOrder)
            /\ IF DelayNeeded(bI, concurrentOf(bOptions), Len(imageBuffers))
               THEN bPc' = "delay" /\ UNCHANGED bI
               ELSE bPc' = "loop" /\ bI' = bI + concurrentOf(bOptions)
            /\ UNCHANGED bOutcome
    /\ batchPromises' = <<>>
    /\ UNCHANGED <<imageBuffers, bOptions, bEvents>>
    /\ UNCHANGED otherThanBatch

(* The one second timer between two groups, then i += concurrent. *)
BatchDelay ==
    /\ bPc = "delay"
    /\ Count(bEvents, IsDelay) < MaxDelays
    /\ bEvents' = Append(bEvents, BatchEvent("delay", bI))
    /\ bI' = bI + concurrentOf(bOptions)
    /\ bPc' = "loop"
    /\ UNCHANGED <<imageBuffers, bOptions, batchPromises, results, bOutcome>>
    /\ UNCHANGED otherThanBatch

(* The loop test fails: the summary is returned. *)
BatchReturn ==
    /\ bPc = "loop"
    /\ ~(bI < Len(imageBuffers))
    /\ bOutcome' = BatchSummary(results)
    /\ bPc' = "returned"
    /\ UNCHANGED <<imageBuffers, bOptions, bI, batchPromises, results, bEvents>>
    /\ UNCHANGED otherThanBatch

BatchNext ==
    \/ BatchDispatch
    \/ BatchSettle
    \/ BatchCollect
    \/ BatchDelay
    \/ BatchReturn

(* Batch inputs *)

BatchBuffers ==
    {[length |-> 0, valid |-> TRUE], [length |-> 0, valid |-> FALSE],
     [length |-> DefaultMaxFileSize + 1, valid |-> TRUE]}

BatchOptionsSet ==
    {c @@ p @@ f :
        c \in {<<>>} \cup {[concurrent |-> n] : n \in 0..MaxConcurrent},
        p \in {<<>>, [priority |-> <<"removebg">>]},
        f \in {<<>>, [fallbackToLocal |-> FALSE]}}

BatchInit ==
    /\ imageBuffers \in UNION {[1..n -> BatchBuffers] : n \in 0..MaxBatch}
    /\ bOptions \in BatchOptionsSet
    /\ bPc = "loop"
    /\ bI = 0
    /\ batchPromises = <<>>
    /\ results = <<>>
    /\ bEvents = <<>>
    /\ bOutcome = [kind |-> "pending"]

BatchIdle ==
    /\ imageBuffers = <<>>
    /\ bOptions = <<>>
    /\ bPc = "idle"
    /\ bI = 0
    /\ batchPromises = <<>>
    /\ results = <<>>
    /\ bEvents = <<>>
    /\ bOutcome = [kind |-> "pending"]

-----------------------------------------------------------------------------
(* replaceBackground, one action per awaited step.  The whole body is in   *)
(* one try block.                                                          *)

(* catch (error) { throw new Error(`Background replacement failed: ...`) }: *)
(* a plain Error whatever was caught.                                      *)
ReplaceFailure(message) ==
    [kind |-> "error", name |-> "Error",
     error |-> "Background replacement failed: " \o message]

ReplaceResult == [kind |-> "result", name |-> "", error |-> ""]

ReplacePending == [kind |-> "pending", name |-> "", error |-> ""]

NoForeground == [service |-> "", valid |-> FALSE]

(* A remote provider's response body is whatever the provider sent; the    *)
(* local model and the basic fallback return what sharp encoded.           *)
ForegroundValidities(v) ==
    IF \E n \in ServiceNames : v.service = services[n].name
    THEN BOOLEAN ELSE {TRUE}

(* Messages sharp can reject the composition of two decodable images with. *)
CompositeMessages == {"Input image exceeds pixel limit"}

(* await this.autoRemoveBackground(imageBuffer, options) *)
ReplaceRemove ==
    /\ rPc = "remove"
    /\ \E v \in autoRemoveBackground(rImageBuffer, rOptions, apiKeys) :
         IF v.kind = "error"
         THEN /\ rOutcome' = ReplaceFailure(v.error)
              /\ rFailedAt' = "remove"
              /\ rPc' = "done"
              /\ UNCHANGED foreground
         ELSE /\ \E valid \in ForegroundValidities(v) :
                   foreground' = [service |-> v.service, valid |-> valid]
              /\ rPc' = "metadata"
              /\ UNCHANGED <<rOutcome, rFailedAt>>
    /\ UNCHANGED <<rImageBuffer, backgroundBuffer, rOptions>>
    /\ UNCHANGED otherThanReplace

(* foregroundImage.metadata() and backgroundImage.metadata() *)
ReplaceMetadata ==
    /\ rPc = "metadata"
    /\ IF foreground.valid /\ SharpDecodes(backgroundBuffer)
       THEN /\ rPc' = "composite"
            /\ UNCHANGED <<rOutcome, rFailedAt>>
       ELSE /\ rOutcome' = ReplaceFailure(
                    "Input buffer contains unsupported image format")
            /\ rFailedAt' = "metadata"
            /\ rPc' = "done"
    /\ UNCHANGED <<rImageBuffer, backgroundBuffer, rOptions, foreground>>
    /\ UNCHANGED otherThanReplace

(* resize, composite, jpeg and toBuffer *)
ReplaceComposite ==
    /\ rPc = "composite"
    /\ \/ /\ rOutcome' = ReplaceResult
          /\ UNCHANGED rFailedAt
       \/ \E message \in CompositeMessages :
            /\ rOutcome' = ReplaceFailure(message)
            /\ rFailedAt' = "composite"
    /\ rPc' = "done"
    /\ UNCHANGED <<rImageBuffer, backgroundBuffer, rOptions, foreground>>
    /\ UNCHANGED otherThanReplace

ReplaceNext ==
    \/ ReplaceRemove
    \/ ReplaceMetadata
    \/ ReplaceComposite

ReplaceOptionsSet ==
    {p @@ f :
        p \in {<<>>, [priority |-> <<"removebg">>]},
        f \in {<<>>, [fallbackToLocal |-> FALSE]}}

ReplaceInit ==
    /\ rImageBuffer \in BatchBuffers
    /\ backgroundBuffer \in [length : {0}, valid : BOOLEAN]
    /\ rOptions \in ReplaceOptionsSet
    /\ rPc = "remove"
    /\ foreground = NoForeground
    /\ rFailedAt = ""
    /\ rOutcome = ReplacePending

ReplaceIdle ==
    /\ rImageBuffer = [length |-> 0, valid |-> TRUE]
    /\ backgroundBuffer = [length |-> 0, valid |-> TRUE]
    /\ rOptions = <<>>
    /\ rPc = "idle"
    /\ foreground = NoForeground
    /\ rFailedAt = ""
    /\ rOutcome = ReplacePending

-----------------------------------------------------------------------------
(* QRScanner: the camera of the scan tab (src/js/qr-scanner.js) *)

(* The tabs of the scanner, by their data-tab value. *)
TabIds == {"upload", "camera"}

(* new QRScanner(): no stream, no timer, not scanning. *)
QrInit ==
    /\ currentStream = 0
    /\ scanInterval = 0
    /\ isScanning = FALSE
    /\ startCameraBtnDisabled = FALSE
    /\ activeTab = "upload"
    /\ pendingStarts = 0
    /\ started = 0
    /\ acquired = 0
    /\ liveStreams = {}
    /\ activeTimers = {}

QrIdle == QrInit

(* startContinuousScan(): the flag is set and a new timer replaces the     *)
(* field's value; the new timer takes the number of the new stream.        *)
startContinuousScan(timer) ==
    /\ isScanning' = TRUE
    /\ scanInterval' = timer
    /\ activeTimers' = activeTimers \cup {timer}

(* stopContinuousScan(): the flag is reset and the timer the field holds   *)
(* is cleared.                                                             *)
stopContinuousScan ==
    /\ isScanning' = FALSE
    /\ IF scanInterval # 0
       THEN /\ activeTimers' = activeTimers \ {scanInterval}
            /\ scanInterval' = 0
       ELSE UNCHANGED <<activeTimers, scanInterval>>

(* The body of stopCamera(): nothing happens without a current stream.     *)
stopCameraBody ==
    IF currentStream # 0
    THEN /\ liveStreams' = liveStreams \ {currentStream}
         /\ currentStream' = 0
         /\ stopContinuousScan
         /\ startCameraBtnDisabled' = FALSE
    ELSE UNCHANGED <<liveStreams, currentStream, isScanning, scanInterval,
                     activeTimers, startCameraBtnDisabled>>

(* A click on the enabled start button: startCamera() runs up to its await *)
(* of getUserMedia.                                                        *)
startCamera ==
    /\ ~startCameraBtnDisabled
    /\ started < MaxStarts
    /\ started' = started + 1
    /\ pendingStarts' = pendingStarts + 1
    /\ UNCHANGED <<currentStream, scanInterval, isScanning,
                   startCameraBtnDisabled, activeTab, acquired, liveStreams,
                   activeTimers>>
    /\ UNCHANGED otherThanQr

(* getUserMedia resolves with a new stream: the rest of the try block.     *)
startCameraResolved ==
    /\ pendingStarts > 0
    /\ pendingStarts' = pendingStarts - 1
    /\ acquired' = acquired + 1
    /\ liveStreams' = liveStreams \cup {acquired + 1}
    /\ currentStream' = acquired + 1
    /\ startCameraBtnDisabled' = TRUE
    /\ startContinuousScan(acquired + 1)
    /\ UNCHANGED <<activeTab, started>>
    /\ UNCHANGED otherThanQr

(* getUserMedia rejects: the catch block reports the error.                *)
startCameraRejected ==
    /\ pendingStarts > 0
    /\ pendingStarts' = pendingStarts - 1
    /\ UNCHANGED <<currentStream, scanInterval, isScanning,
                   startCameraBtnDisabled, activeTab, started, acquired,
                   liveStreams, activeTimers>>
    /\ UNCHANGED otherThanQr

(* stopCamera() *)
stopCamera ==
    /\ stopCameraBody
    /\ UNCHANGED <<activeTab, pendingStarts, started, acquired>>
    /\ UNCHANGED otherThanQr

(* switchTab(tabId) *)
switchTab(tabId) ==
    /\ activeTab' = tabId
    /\ IF tabId # "camera" /\ currentStream # 0
       THEN stopCameraBody
       ELSE UNCHANGED <<liveStreams, currentStream, isScanning, scanInterval,
                        activeTimers, startCameraBtnDisabled>>
    /\ UNCHANGED <<pendingStarts, started, acquired>>
    /\ UNCHANGED otherThanQr

QrNext ==
    \/ startCamera
    \/ startCameraResolved
    \/ startCameraRejected
    \/ stopCamera
    \/ \E tabId \in TabIds : switchTab(tabId)

-----------------------------------------------------------------------------
(* Specifications *)

NextAuto == AutoNext

InitAuto ==
    /\ apiKeys \in SUBSET ServiceNames
    /\ AutoInit
    /\ BatchIdle
    /\ PdfIdle
    /\ ReplaceIdle
    /\ QrIdle

SpecAuto == InitAuto /\ [][NextAuto]_vars

NextBatch == BatchNext

InitBatch ==
    /\ apiKeys \in {{}, ServiceNames}
    /\ BatchInit
    /\ AutoIdle
    /\ PdfIdle
    /\ ReplaceIdle
    /\ QrIdle

SpecBatch == InitBatch /\ [][NextBatch]_vars

(* The event loop runs every continuation and timer that is ready, and     *)
(* every autoRemoveBackground call settles.                                *)
SpecBatchFair == SpecBatch /\ WF_vars(NextBatch)

NextPdf == PdfNext

InitPdf ==
    /\ apiKeys = {}
    /\ PdfInit
    /\ AutoIdle
    /\ BatchIdle
    /\ ReplaceIdle
    /\ QrIdle

SpecPdf == InitPdf /\ [][NextPdf]_vars

InitPdfConcurrent ==
    /\ apiKeys = {}
    /\ PdfConcurrentInit
    /\ AutoIdle
    /\ BatchIdle
    /\ ReplaceIdle
    /\ QrIdle

SpecPdfConcurrent == InitPdfConcurrent /\ [][NextPdf]_vars

NextReplace == ReplaceNext

InitReplace ==
    /\ apiKeys \in {{}, ServiceNames}
    /\ ReplaceInit
    /\ AutoIdle
    /\ BatchIdle
    /\ PdfIdle
    /\ QrIdle

SpecReplace == InitReplace /\ [][NextReplace]_vars

(* One call of any of the three methods of BackgroundRemover. *)
NextCalls ==
    \/ AutoNext
    \/ BatchNext
    \/ ReplaceNext

InitCalls ==
    \/ InitAuto
    \/ InitBatch
    \/ InitReplace

SpecCalls == InitCalls /\ [][NextCalls]_vars

NextQr == QrNext

InitQr ==
    /\ apiKeys = {}
    /\ QrInit
    /\ AutoIdle
    /\ BatchIdle
    /\ PdfIdle
    /\ ReplaceIdle

SpecQr == InitQr /\ [][NextQr]_vars

-----------------------------------------------------------------------------
(* Properties of autoRemoveBackground *)

SizeExceeded == imageBuffer.length > maxFileSizeOf(options)

FallbackEnabled ==
    "fallbackToLocal" \in DOMAIN options => options.fallbackToLocal

(* A log entry of a provider of the priority list that fulfilled. *)
Succeeded(e) ==
    \/ e.op = "local" /\ e.status = "ok"
    \/ e.op = "post" /\ e.status = "200"

NoListedProviderSucceeded ==
    \A i \in 1..Len(aLog) : ~Succeeded(aLog[i])

(* C1: totality. A call with a buffer within maxFileSize, a non-empty      *)
(* priority list and fallback enabled ends with a successful result,       *)
(* whichever providers fail.                                               *)
C1_Totality ==
    (aPc = "done" /\ ~SizeExceeded /\ Len(aPriority) > 0 /\ FallbackEnabled)
        => aOutcome.kind = "result"

(* C2: fail fast on size. A buffer longer than maxFileSize makes the call  *)
(* fail with the size error, and no provider (local, remote or basic       *)
(* transparency) has been invoked and no priority entry visited.           *)
C2_FailFastOnSize ==
    SizeExceeded =>
        /\ aLog = <<>>
        /\ aVisited = <<>>
        /\ aPc \in {"start", "done"}
        /\ aPc = "done" => aOutcome = Failure("File too large")

C2_Witness ==
    /\ aPc = "done"
    /\ SizeExceeded
    /\ Len(aPriority) > 0
    /\ aOutcome.kind = "error"

(* C3: short-circuit. Providers are invoked in list order, every known     *)
(* entry before the current one has been invoked, a provider that succeeds *)
(* is the last one invoked and its result is what the call returns; hence  *)
(* at most one provider succeeds per request.                              *)
C3_ShortCircuit ==
    /\ \A i \in 1..Len(aLog) :
         /\ aLog[i].op # "basic" =>
              /\ aLog[i].pos \in 1..Len(aPriority)
              /\ aPriority[aLog[i].pos] =
                    (IF aLog[i].op = "local" THEN "local" ELSE aLog[i].name)
         /\ \A j \in 1..Len(aLog) : i < j => aLog[i].pos < aLog[j].pos
         /\ Succeeded(aLog[i]) =>
              /\ i = Len(aLog)
              /\ aPc = "done"
              /\ aOutcome.kind = "result"
              /\ aOutcome.service =
                    (IF aLog[i].op = "local" THEN "Local: U^2-Net"
                     ELSE services[aLog[i].name].name)
    /\ \A p \in 1..Len(aPriority) :
         (p < aIdx /\ aPriority[p] \in TruthyLookups \cup {"local"})
            => \E i \in 1..Len(aLog) : aLog[i].pos = p
    /\ Cardinality({i \in 1..Len(aLog) : Succeeded(aLog[i])}) <= 1

C3_Witness ==
    /\ aPc = "done"
    /\ Len(aLog) >= 2
    /\ ~Succeeded(aLog[1])
    /\ Succeeded(aLog[Len(aLog)])
    /\ aLog[Len(aLog)].pos < Len(aPriority)
    /\ aPriority[aLog[Len(aLog)].pos + 1] \in apiKeys \cup {"local"}

(* C7: a remote provider without an API key is never sent an HTTP request: *)
(* its invocation fails as unconfigured and the loop goes on to the next   *)
(* priority entry.                                                         *)
C7_NoCallWithoutKey ==
    \A i \in 1..Len(aLog) :
        (aLog[i].name \in ServiceNames /\ aLog[i].name \notin apiKeys) =>
            /\ aLog[i].op = "service"
            /\ aLog[i].status = "unconfigured"
            /\ aIdx > aLog[i].pos
            /\ (aPc = "done" /\ aLog[i].pos < Len(aPriority)) =>
                  \E k \in 1..Len(aVisited) : aVisited[k] = aLog[i].pos + 1

C7_Witness ==
    /\ aPc = "done"
    /\ \E i \in 1..Len(aLog) :
         /\ aLog[i].status = "unconfigured"
         /\ i < Len(aLog)
         /\ aLog[i + 1].op = "post"

(* C8: when removebg, backgrounds and clipdrop all answer HTTP 429 (and no *)
(* listed provider succeeds), a call with fallback enabled returns the     *)
(* 'Basic Transparency' result with cost 0.                                *)
AllRemotesRateLimited ==
    \A s \in ServiceNames :
        \E i \in 1..Len(aLog) :
            aLog[i].op = "post" /\ aLog[i].name = s /\ aLog[i].status = "429"

C8_RateLimitedGivesBasic ==
    (aPc = "done" /\ FallbackEnabled /\ AllRemotesRateLimited
        /\ NoListedProviderSucceeded)
        => aOutcome = [kind |-> "result", service |-> "Basic Transparency",
                       cost |-> 0, error |-> ""]

(* C9: with fallbackToLocal = false, when no entry of the priority list    *)
(* succeeds the call fails with 'All background removal services failed',  *)
(* every entry has been visited exactly once in order, every known entry   *)
(* invoked exactly once, and basic transparency was not applied.           *)
C9_AllFailedWithoutFallback ==
    (aPc = "done" /\ ~FallbackEnabled /\ ~SizeExceeded
        /\ NoListedProviderSucceeded) =>
        /\ aOutcome.kind = "error"
        /\ aOutcome.error = "All background removal services failed"
        /\ aVisited = [p \in 1..Len(aPriority) |-> p]
        /\ \A p \in 1..Len(aPriority) :
             Cardinality({i \in 1..Len(aLog) : aLog[i].pos = p}) =
                (IF aPriority[p] \in TruthyLookups \cup {"local"} THEN 1 ELSE 0)
        /\ \A i \in 1..Len(aLog) : aLog[i].op # "basic"

C9_Witness ==
    /\ aPc = "done"
    /\ ~FallbackEnabled
    /\ aOutcome.error = "All background removal services failed"
    /\ Len(aLog) >= 2
    /\ \E i \in 1..Len(aLog) : aLog[i].status \in {"402", "429", "500", "network"}

-----------------------------------------------------------------------------
(* Properties of batchRemoveBackground *)

BatchSize == Len(imageBuffers)

Returned == bPc = "returned"

SettlesOf(index) ==
    {k \in 1..Len(bEvents) : bEvents[k].ev = "settle" /\ bEvents[k].index = index}

(* C4: batch result order. The entry at position k of the results sequence *)
(* carries index k (counting from 0), while the group is collected and in  *)
(* the returned outcome, whatever the order in which the calls of a group  *)
(* settled.                                                                *)
C4_BatchResultOrder ==
    /\ \A k \in 1..Len(results) : results[k].index = k - 1
    /\ Returned =>
         /\ bOutcome.results = results
         /\ Len(bOutcome.results) = BatchSize

C4_Witness ==
    /\ Returned
    /\ Len(bOutcome.results) >= 2
    /\ \E i, j \in 1..Len(bEvents) :
         /\ i < j
         /\ bEvents[i].ev = "settle"
         /\ bEvents[j].ev = "settle"
         /\ bEvents[i].index > bEvents[j].index

(* C5: batch count conservation. In the returned outcome successful +      *)
(* failed = total, total is the number of input buffers, and results holds *)
(* exactly one entry per input buffer.                                     *)
C5_BatchCountConservation ==
    Returned =>
        /\ bOutcome.successful + bOutcome.failed = bOutcome.total
        /\ bOutcome.total = BatchSize
        /\ Len(bOutcome.results) = BatchSize
        /\ \A index \in 0..(BatchSize - 1) :
             Cardinality({k \in 1..Len(bOutcome.results) :
                            bOutcome.results[k].index = index}) = 1

C5_Witness ==
    /\ Returned
    /\ BatchSize = MaxBatch
    /\ bOutcome.successful >= 1
    /\ bOutcome.failed >= 1
    /\ Count(bEvents, IsDelay) >= 1

(* C6: batch failure isolation. The batch never throws; a failed image     *)
(* (here: every over-long buffer) is recorded with success = false at its  *)
(* own index and counted in failed, every image is started and settled     *)
(* exactly once, and an outcome is returned also when every image fails.   *)
C6_BatchFailureIsolation ==
    /\ bPc # "threw"
    /\ bOutcome.kind # "threw"
    /\ Returned =>
         /\ Len(bOutcome.results) = BatchSize
         /\ \A k \in 1..BatchSize :
              /\ Cardinality(SettlesOf(k - 1)) = 1
              /\ imageBuffers[k].length > maxFileSizeOf(bOptions) =>
                   /\ ~bOutcome.results[k].success
                   /\ bOutcome.results[k].index = k - 1
                   /\ bOutcome.results[k].error = "File too large"
         /\ bOutcome.failed =
              Cardinality({k \in 1..BatchSize : ~bOutcome.results[k].success})
         /\ bOutcome.failed >=
              Cardinality({k \in 1..BatchSize :
                  imageBuffers[k].length > maxFileSizeOf(bOptions)})

C6_Witness ==
    /\ Returned
    /\ BatchSize >= 2
    /\ ~bOutcome.results[1].success
    /\ bOutcome.results[2].success
    /\ bOutcome.failed >= 1

-----------------------------------------------------------------------------
(* Properties of compress *)

Budget(r) == maxSizeMBOf(pdf[r].opts) * MB

Settled(r) == pdf[r].outcome.kind # "pending"

(* Every external operation succeeded and every attempt came out over the  *)
(* size budget.                                                            *)
OverBudgetRun(r) ==
    /\ Settled(r)
    /\ pdf[r].faults = 0
    /\ Len(pdf[r].tools) >= 1
    /\ \A k \in 1..Len(pdf[r].tools) : pdf[r].tools[k].size > Budget(r)

ReturnsOverBudget(r) ==
    /\ pdf[r].outcome.kind = "result"
    /\ pdf[r].outcome.compressedSize > Budget(r)

(* C10 as stated: with a budget below every achievable output and any      *)
(* starting quality, compress runs the tool exactly once more with quality *)
(* 'screen' after the first over-budget attempt and returns an over-budget *)
(* result without throwing.                                                *)
C10_Original ==
    \A r \in DOMAIN pdf :
        OverBudgetRun(r) =>
            /\ ReturnsOverBudget(r)
            /\ Len(pdf[r].tools) = 2
            /\ pdf[r].tools[2].quality = "screen"

(* C10 amended: compress never nests more than two activations nor runs    *)
(* the tool more than twice; with a budget below every achievable output   *)
(* it returns an over-budget result without throwing, after exactly one    *)
(* more attempt with quality 'screen' when the starting quality is not     *)
(* 'screen', and after the single attempt when it is.                      *)
C10_OverBudgetTerminates ==
    \A r \in DOMAIN pdf :
        /\ Len(pdf[r].frames) <= 2
        /\ Len(pdf[r].tools) <= 2
        /\ OverBudgetRun(r) =>
             /\ ReturnsOverBudget(r)
             /\ IF qualityOf(pdf[r].opts) = "screen"
                THEN Len(pdf[r].tools) = 1
                ELSE /\ Len(pdf[r].tools) = 2
                     /\ pdf[r].tools[2].quality = "screen"
                     /\ pdf[r].outcome.compressedSize = pdf[r].tools[2].size

C10_Witness ==
    \E r \in DOMAIN pdf :
        /\ OverBudgetRun(r)
        /\ qualityOf(pdf[r].opts) \notin {"screen", "ebook"}
        /\ Len(pdf[r].tools) = 2
        /\ pdf[r].outcome.kind = "result"

-----------------------------------------------------------------------------
(* Properties of the temp files of compress *)

(* The temp files in the directory that call r wrote. *)
FilesOf(r) == {q \in DOMAIN tempFiles : tempFiles[q].owner = r}

(* C11 as stated: once a compress call has returned or thrown, none of the *)
(* input and output temp paths generated by the call or by its escalated   *)
(* attempt exists in the temp directory.                                   *)
C11_Original ==
    \A r \in DOMAIN pdf :
        Settled(r) => pdf[r].paths \cap DOMAIN tempFiles = {}

(* C11: temp-file cleanup on every exit path. Once a compress call has     *)
(* returned or thrown, a temp file written by the call or by its escalated *)
(* attempt is left in the temp directory only if unlinking it failed; when *)
(* no unlink failed, none is left.                                         *)
C11_CleanupOnEveryExit ==
    \A r \in DOMAIN pdf :
        Settled(r) => FilesOf(r) \subseteq pdf[r].unlinkFailed

(* An escalated call whose second tool run failed has thrown, no unlink    *)
(* failed and the directory is empty.                                      *)
C11_Witness ==
    \E r \in DOMAIN pdf :
        /\ Settled(r)
        /\ pdf[r].outcome.kind = "error"
        /\ Len(pdf[r].tools) = 2
        /\ ~pdf[r].tools[2].ok
        /\ pdf[r].unlinkFailed = {}
        /\ pdf[r].paths # {}
        /\ DOMAIN tempFiles = {}

(* Compress call r is between the generation of its temp paths and its     *)
(* return or throw.                                                        *)
InProgress(r) ==
    /\ ~Settled(r)
    /\ Top(r).pc # "enter"

(* C12: temp filenames are unique per invocation. Any two compress calls   *)
(* in progress at the same time have distinct input and output temp paths, *)
(* and a call neither reads a file another call wrote nor finds a file it  *)
(* wrote replaced by another call.                                         *)
C12_UniqueTempNames ==
    \A r1 \in DOMAIN pdf : \A r2 \in DOMAIN pdf \ {r1} :
        InProgress(r1) /\ InProgress(r2) =>
            /\ FramePaths(Top(r1)) \cap FramePaths(Top(r2)) = {}
            /\ \A q \in FramePaths(Top(r1)) \cap DOMAIN tempFiles :
                   tempFiles[q].owner = r1

-----------------------------------------------------------------------------
(* Properties of the batch summary *)

(* The positions of the returned results that a paid remote provider       *)
(* produced.                                                               *)
PaidItems ==
    {k \in 1..Len(bOutcome.results) :
        /\ bOutcome.results[k].success
        /\ \E n \in ServiceNames :
               bOutcome.results[k].service = services[n].name}

(* C13: the batch estimated cost counts only paid items. estimatedCost is  *)
(* the per-image price times the number of items a paid remote provider    *)
(* resolved; items resolved by the local model or by the basic fallback    *)
(* add nothing, so a batch resolved entirely locally costs 0.              *)
C13_CostCountsPaidItems ==
    Returned => bOutcome.estimatedCost = Cardinality(PaidItems) * 2

-----------------------------------------------------------------------------
(* Properties of a tool failure in compress *)

ToolErrorMessages == {"Ghostscript compression failed", "qPDF compression failed"}

(* C14: a failure of the external compression tool is fatal. The failed    *)
(* invocation is the last tool invocation of the call (no retry, no        *)
(* escalation), the call returns no result, and what it throws is the tool *)
(* error.                                                                  *)
C14_ToolFailureIsFatal ==
    \A r \in DOMAIN pdf :
        \A k \in 1..Len(pdf[r].tools) :
            ~pdf[r].tools[k].ok =>
                /\ k = Len(pdf[r].tools)
                /\ pdf[r].outcome.kind # "result"
                /\ Settled(r) =>
                     /\ pdf[r].outcome.kind = "error"
                     /\ pdf[r].outcome.error \in ToolErrorMessages

(* The first tool run of a call that could still escalate has failed, and  *)
(* the call has thrown.                                                    *)
C14_Witness ==
    \E r \in DOMAIN pdf :
        /\ Settled(r)
        /\ Len(pdf[r].tools) = 1
        /\ ~pdf[r].tools[1].ok
        /\ pdf[r].tools[1].quality = "prepress"
        /\ pdf[r].outcome.kind = "error"

-----------------------------------------------------------------------------
(* Properties of the quality escalation of compress *)

(* The ladder of quality levels, least aggressive first. *)
QualityLadder == <<"prepress", "printer", "default", "ebook", "screen">>

LadderNext(q) ==
    LET k == CHOOSE n \in 1..Len(QualityLadder) : QualityLadder[n] = q
    IN  QualityLadder[IF k < Len(QualityLadder) THEN k + 1 ELSE k]

(* C19 as stated: every further attempt of a compress call runs at the     *)
(* next level of the ladder after the level of the attempt before it.      *)
C19_Original ==
    \A r \in DOMAIN pdf :
        \A k \in 1..(Len(pdf[r].tools) - 1) :
            pdf[r].tools[k + 1].quality = LadderNext(pdf[r].tools[k].quality)

-----------------------------------------------------------------------------
(* Properties of the groups of batchRemoveBackground *)

(* The group of the image at a 0-based index, for a positive group size. *)
GroupOf(index) == index \div concurrentOf(bOptions)

StartsOf(index) ==
    {k \in 1..Len(bEvents) : bEvents[k].ev = "start" /\ bEvents[k].index = index}

(* C20: group barrier. When the call for an image starts, the call of      *)
(* every image of every earlier group has already settled, where the       *)
(* groups are the contiguous slices of size concurrent of the input list.  *)
C20_GroupBarrier ==
    concurrentOf(bOptions) > 0 =>
        \A x \in 0..(BatchSize - 1) : \A y \in 0..(BatchSize - 1) :
            GroupOf(y) < GroupOf(x) =>
                \A j \in StartsOf(x) : \E k \in SettlesOf(y) : k < j

(* The third image, alone in the second group of a batch run in groups of  *)
(* two, has started after the two calls of the first group settled in      *)
(* reverse order.                                                          *)
C20_Witness ==
    /\ BatchSize = 3
    /\ concurrentOf(bOptions) = 2
    /\ StartsOf(2) # {}
    /\ \E k0 \in SettlesOf(0) : \E k1 \in SettlesOf(1) : k1 < k0

-----------------------------------------------------------------------------
(* Properties of a remote failure in autoRemoveBackground *)

(* The log positions of the requests a remote provider answered with a     *)
(* failure.                                                                *)
FailedPosts ==
    {k \in 1..Len(aLog) :
        aLog[k].op = "post" /\ aLog[k].status \notin {"sent", "200"}}

(* C15: remote error classification. A 402 response gives the payment      *)
(* error, a 429 response the rate-limit error, any other failed response   *)
(* or a network failure the generic provider-failed error with the        *)
(* underlying message; in each case the same priority entry is not tried   *)
(* again, the call does not end with that error and the loop goes on with  *)
(* the next entry.                                                         *)
C15_RemoteErrorClassification ==
    \A k \in FailedPosts :
        LET e == aLog[k]
            provider == services[e.name].name IN
          /\ e.error =
                IF e.status = "402"
                THEN provider \o ": Payment required or insufficient credits"
                ELSE IF e.status = "429"
                THEN provider \o ": Rate limit exceeded"
                ELSE IF e.status = "network"
                THEN provider \o " failed: Network Error"
                ELSE provider \o " failed: Request failed with status code "
                              \o e.status
          /\ \A j \in 1..Len(aLog) : j # k => aLog[j].pos # e.pos
          /\ aIdx > e.pos
          /\ aOutcome.error # e.error
          /\ (e.pos < Len(aPriority) /\ (aPc = "done" \/ aIdx > e.pos + 1)) =>
                \E v \in 1..Len(aVisited) : aVisited[v] = e.pos + 1

(* Three providers in a row have answered 402, 429 and 500, and the call   *)
(* has ended after the last one.                                           *)
C15_Witness ==
    /\ aPc = "done"
    /\ Len(aLog) >= 3
    /\ aLog[1].op = "post" /\ aLog[1].status = "402"
    /\ aLog[2].op = "post" /\ aLog[2].status = "429"
    /\ aLog[3].op = "post" /\ aLog[3].status = "500"

-----------------------------------------------------------------------------
(* Properties of replaceBackground *)

(* C17: typed composition errors. replaceBackground fails with a decode    *)
(* error when reading the foreground or the background image fails, with a *)
(* composite error when the composition fails, and an error of the        *)
(* embedded autoRemoveBackground is neither of the two, so the name of the *)
(* error tells the caller which kind of failure happened.                  *)
C17_TypedCompositionErrors ==
    rOutcome.kind = "error" =>
        /\ rFailedAt = "metadata" => rOutcome.name = "DecodeError"
        /\ rFailedAt = "composite" => rOutcome.name = "CompositeError"
        /\ rFailedAt = "remove" =>
               rOutcome.name \notin {"DecodeError", "CompositeError"}

-----------------------------------------------------------------------------
(* Properties of the caller's objects *)

(* What the caller handed to the three methods. *)
request ==
    <<imageBuffer, options, imageBuffers, bOptions, rImageBuffer,
      backgroundBuffer, rOptions>>

(* C18: the orchestrator does not mutate the request. No step of           *)
(* autoRemoveBackground, batchRemoveBackground or replaceBackground        *)
(* changes the caller's image buffer or buffers, the list of buffers or    *)
(* the options object with its priority list, so they are the same after   *)
(* the call as before it, whether it succeeded or failed.                  *)
C18_RequestNotMutated == [][request' = request]_vars

(* A batch of two groups has returned with a failed item. *)
C18_Witness ==
    /\ Returned
    /\ BatchSize > concurrentOf(bOptions)
    /\ concurrentOf(bOptions) > 0
    /\ bOutcome.failed > 0

-----------------------------------------------------------------------------
(* Properties of the delay between the groups *)

Delays == {k \in 1..Len(bEvents) : bEvents[k].ev = "delay"}

(* The number of groups of a list of n images cut in slices of c >= 1. *)
GroupCount(n, c) == (n + c - 1) \div c

(* C21: inter-group delay. With a group size of at least 1 the delay runs  *)
(* once after each group that is not the last one, right after the group   *)
(* has settled and before the next one starts, and never after the last    *)
(* group: a returned batch of n images in groups of c has made             *)
(* ceil(n/c) - 1 delays, none when n <= c.                                 *)
C21_InterGroupDelay ==
    LET c == IF "concurrent" \in DOMAIN bOptions
             THEN bOptions.concurrent ELSE DefaultConcurrent
        n == BatchSize
    IN  c >= 1 =>
          /\ \A k \in Delays :
                /\ bEvents[k].index + c < n
                /\ k > 1 /\ bEvents[k - 1].ev = "settle"
                /\ k < Len(bEvents) =>
                     /\ bEvents[k + 1].ev = "start"
                     /\ bEvents[k + 1].index = bEvents[k].index + c
                /\ \A j \in Delays : j # k => bEvents[j].index # bEvents[k].index
          /\ Returned =>
                Cardinality(Delays) = IF n <= c THEN 0 ELSE GroupCount(n, c) - 1

(* Three images in groups of one have been processed with two delays. *)
C21_Witness ==
    /\ Returned
    /\ BatchSize = 3
    /\ Cardinality(Delays) = 2

-----------------------------------------------------------------------------
(* Properties of a failed cleanup in compress *)

(* The errors of the operations of compress other than the cleanup. *)
PrimaryErrors ==
    {"mkdir failed", "write failed", "Unsupported method", "read failed",
     "Ghostscript compression failed", "qPDF compression failed"}

(* C22: cleanup failures never mask the primary outcome. A compress call   *)
(* in which an unlink failed still returns its result, that of its last    *)
(* tool run, when the method is supported and every other operation        *)
(* succeeded, and still throws the error of the operation that failed or   *)
(* of the unsupported method otherwise.                                    *)
C22_CleanupNeverMasks ==
    \A r \in DOMAIN pdf :
        Settled(r) /\ pdf[r].unlinkFailed # {} =>
            IF pdf[r].faults = 0 /\ SupportedInSwitch(pdf[r].opts)
            THEN /\ pdf[r].outcome.kind = "result"
                 /\ pdf[r].outcome.compressedSize =
                        pdf[r].tools[Len(pdf[r].tools)].size
            ELSE /\ pdf[r].outcome.kind = "error"
                 /\ pdf[r].outcome.error \in PrimaryErrors

(* A call whose input file could not be unlinked has returned a result,    *)
(* and the file is still there.                                            *)
C22_Witness ==
    \E r \in DOMAIN pdf :
        /\ pdf[r].outcome.kind = "result"
        /\ pdf[r].unlinkFailed # {}
        /\ pdf[r].unlinkFailed \subseteq DOMAIN tempFiles

-----------------------------------------------------------------------------
(* Properties of the cost of a removal result *)

(* The log positions of the remote requests that were answered with an     *)
(* image.                                                                  *)
SuccessfulPosts ==
    {k \in 1..Len(aLog) : aLog[k].op = "post" /\ aLog[k].status = "200"}

(* C23: cost invariant of removal results. A result autoRemoveBackground   *)
(* returns comes from the last invocation of the call; it has cost 0 when  *)
(* that was the local model or the basic fallback and the costPerImage of  *)
(* the registered provider when that was a remote provider, and a cost     *)
(* other than 0 comes with exactly one successful remote call.             *)
C23_CostInvariant ==
    aPc = "done" /\ aOutcome.kind = "result" =>
        /\ Len(aLog) >= 1
        /\ LET e == aLog[Len(aLog)] IN
             /\ e.op \in {"local", "basic"} =>
                    e.status = "ok" /\ aOutcome.cost = 0
             /\ e.op \notin {"local", "basic"} =>
                    /\ e.op = "post" /\ e.status = "200"
                    /\ aOutcome.service = services[e.name].name
                    /\ aOutcome.cost = services[e.name].costPerImage
        /\ aOutcome.cost # 0 => Cardinality(SuccessfulPosts) = 1
        /\ aOutcome.cost = 0 => SuccessfulPosts = {}

(* The second provider of the list has answered with an image after the    *)
(* first one failed, and the result carries its price.                     *)
C23_Witness ==
    /\ aPc = "done"
    /\ aOutcome.kind = "result"
    /\ Len(aLog) = 2
    /\ aLog[1].op = "post" /\ aLog[1].status = "500"
    /\ aLog[2].op = "post" /\ aLog[2].name = "backgrounds"
    /\ aOutcome.cost = services.backgrounds.costPerImage

-----------------------------------------------------------------------------
(* Properties of the default priority *)

RemoteAttempts == {k \in 1..Len(aLog) : aLog[k].op \in {"service", "post"}}

(* C24: under the default priority the local model is tried first. When    *)
(* the caller gives no priority list, the first invocation is the local    *)
(* model, a remote provider is looked at only after that invocation has    *)
(* failed, and when the local model succeeds no remote call is made and    *)
(* the result has cost 0.                                                  *)
C24_LocalFirstByDefault ==
    "priority" \notin DOMAIN options =>
        /\ Len(aLog) >= 1 => aLog[1].op = "local" /\ aLog[1].pos = 1
        /\ \A k \in RemoteAttempts : k > 1 /\ aLog[1].status = "throw"
        /\ (Len(aLog) >= 1 /\ aLog[1].status = "ok") =>
               /\ Len(aLog) = 1
               /\ aPc = "done"
               /\ aOutcome.kind = "result"
               /\ aOutcome.cost = 0

(* Without a priority list the local model has failed and remove.bg has    *)
(* then answered with an image.                                            *)
C24_Witness ==
    /\ "priority" \notin DOMAIN options
    /\ aPc = "done"
    /\ Len(aLog) = 2
    /\ aLog[1].op = "local" /\ aLog[1].status = "throw"
    /\ aLog[2].op = "post" /\ aLog[2].name = "removebg"
    /\ aLog[2].status = "200"

-----------------------------------------------------------------------------
(* Properties of unknown priority entries *)

(* The positions of the priority list whose entry is neither 'local' nor a *)
(* key of the service registry.                                            *)
UnknownPositions ==
    {p \in 1..Len(aPriority) : aPriority[p] \notin ServiceNames \cup {"local"}}

-----------------------------------------------------------------------------
(* Properties of the work in flight *)

(* The calls of the batch that have started and not settled yet. *)
InFlight ==
    {x \in 0..(BatchSize - 1) : StartsOf(x) # {} /\ SettlesOf(x) = {}}

(* C26: bounded in-flight work. With a group size c of at least 1, at most *)
(* c autoRemoveBackground calls of the batch are in flight at any moment,  *)
(* and no image is started twice.                                          *)
C26_BoundedInFlight ==
    LET c == IF "concurrent" \in DOMAIN bOptions
             THEN bOptions.concurrent ELSE DefaultConcurrent
    IN  c >= 1 =>
          /\ Cardinality(InFlight) <= c
          /\ Cardinality({k \in 1..Len(batchPromises) :
                            batchPromises[k].state = "pending"}) <= c
          /\ \A x \in 0..(BatchSize - 1) : Cardinality(StartsOf(x)) <= 1

(* Two of three images are in flight in a batch run in groups of two. *)
C26_Witness ==
    /\ BatchSize = 3
    /\ "concurrent" \in DOMAIN bOptions
    /\ bOptions.concurrent = 2
    /\ Cardinality(InFlight) = 2

-----------------------------------------------------------------------------
(* Properties of the termination of batchRemoveBackground *)

GroupSize ==
    IF "concurrent" \in DOMAIN bOptions
    THEN bOptions.concurrent ELSE DefaultConcurrent

(* The groups whose calls have been started, by the index of their first   *)
(* image.                                                                  *)
GroupsStarted ==
    {x \in 0..(BatchSize - 1) : StartsOf(x) # {} /\ x % GroupSize = 0}

(* With group size 0 and a non-empty list the call is still pending, has   *)
(* started no call, collected nothing and not moved its loop index, and    *)
(* every delay it made was made at index 0.                                *)
ZeroSpins ==
    (GroupSize = 0 /\ BatchSize >= 1) =>
        /\ bOutcome.kind = "pending"
        /\ bI = 0
        /\ results = <<>>
        /\ \A k \in 1..Len(bEvents) :
               bEvents[k].ev = "delay" /\ bEvents[k].index = 0

(* With a group size of at least 1 a returned call has run ceil(n/c)       *)
(* groups.                                                                 *)
ReturnsAfterAllGroups ==
    (GroupSize >= 1 /\ Returned) =>
        Cardinality(GroupsStarted) = GroupCount(BatchSize, GroupSize)

(* C27: batchRemoveBackground with concurrent = 0 and a non-empty list     *)
(* never completes: every loop turn dispatches nothing, leaves the loop    *)
(* index unchanged and makes the delay again, so no outcome is returned;   *)
(* with concurrent >= 1 the call terminates, after exactly ceil(n/c)       *)
(* groups.                                                                 *)
C27_ZeroNeverCompletes ==
    /\ [](ZeroSpins /\ ReturnsAfterAllGroups)
    /\ GroupSize >= 1 => <>Returned

(* A call with group size 0 has made the delay twice and is back at the    *)
(* loop test with nothing started.                                         *)
C27_Witness ==
    /\ GroupSize = 0
    /\ BatchSize >= 1
    /\ bPc = "loop"
    /\ Cardinality(Delays) = 2
    /\ results = <<>>

-----------------------------------------------------------------------------
(* Properties of the number of tool invocations *)

(* C28: at most two tool invocations per compress request. Whatever the    *)
(* input, method, starting quality and budget, one top-level call runs the *)
(* external tool at most twice, the second time with quality 'screen', and *)
(* with method qpdf the second command line has the parameters of the      *)
(* first.                                                                  *)
C28_AtMostTwoToolRuns ==
    \A r \in DOMAIN pdf :
        /\ Len(pdf[r].tools) <= 2
        /\ Len(pdf[r].tools) = 2 =>
              /\ pdf[r].tools[1].quality # "screen"
              /\ pdf[r].tools[2].quality = "screen"
              /\ pdf[r].tools[1].command.tool = "qpdf" =>
                    pdf[r].tools[2].command = pdf[r].tools[1].command
              /\ pdf[r].tools[1].command.tool = "gs" =>
                    /\ pdf[r].tools[2].command.tool = "gs"
                    /\ pdf[r].tools[2].command.setting = "/screen"

(* qpdf has been run twice by one call. *)
C28_Witness ==
    \E r \in DOMAIN pdf :
        /\ Settled(r)
        /\ Len(pdf[r].tools) = 2
        /\ pdf[r].tools[1].command.tool = "qpdf"
        /\ pdf[r].tools[2].ok

-----------------------------------------------------------------------------
(* Properties of a failed escalation *)

(* C29: a failed escalation discards the first attempt. When the first     *)
(* attempt of a compress call succeeded over the budget and an operation   *)
(* of the escalated 'screen' attempt then failed, the call throws the      *)
(* error of that operation and returns no result, although the first       *)
(* attempt had produced a compressed buffer.                               *)
C29_FailedEscalationDiscards ==
    \A r \in DOMAIN pdf :
        (Settled(r) /\ pdf[r].escalated /\ pdf[r].faults >= 1) =>
            /\ pdf[r].tools[1].ok
            /\ pdf[r].tools[1].size > Budget(r)
            /\ pdf[r].outcome.kind = "error"
            /\ pdf[r].outcome.error \in
                  {"mkdir failed", "write failed", "read failed",
                   "Ghostscript compression failed", "qPDF compression failed"}
            /\ Len(pdf[r].tools) = 2 /\ ~pdf[r].tools[2].ok =>
                  pdf[r].outcome.error \in ToolErrorMessages

(* The output of the escalated attempt could not be read after its tool    *)
(* run succeeded, and the call has thrown.                                 *)
C29_Witness ==
    \E r \in DOMAIN pdf :
        /\ Settled(r)
        /\ pdf[r].escalated
        /\ Len(pdf[r].tools) = 2
        /\ pdf[r].tools[2].ok
        /\ pdf[r].outcome.error = "read failed"

-----------------------------------------------------------------------------
(* Properties of the QR camera *)

(* Nothing of the camera is running. *)
CameraQuiet ==
    /\ currentStream = 0
    /\ ~isScanning
    /\ activeTimers = {}
    /\ liveStreams = {}

(* C30: QR camera scanning leaves nothing running after stop. Every step   *)
(* in which stopCamera runs, by its button or through switchTab, and after *)
(* which no startCamera call waits for the camera permission, ends in a    *)
(* state with currentStream null, isScanning false, no scan timer active   *)
(* and no acquired stream left unstopped.                                  *)
C30_NothingRunsAfterStop ==
    [][(/\ stopCamera \/ \E tabId \in TabIds \ {"camera"} : switchTab(tabId)
        /\ pendingStarts' = 0) => CameraQuiet']_vars

====
